---- MODULE Spec2Model ----
(***************************************************************************)
(* Model of imei_extractor_api.py: the Luhn validator, the IMEI candidate  *)
(* scanner and the /extract-imei/ request handler.                         *)
(*                                                                         *)
(* A text is a sequence of characters.  A character is a string: the ten   *)
(* ASCII digits stand for themselves, "a" is a letter, "_" the underscore, *)
(* " " a blank, "NL" a line feed and "SUP2" the character U+00B2           *)
(* (superscript two), for which str.isdigit() is True, which the regular   *)
(* expression class \d does not match and which int() refuses.             *)
(***************************************************************************)
EXTENDS Integers, Sequences, FiniteSets, TLC

VARIABLES
    \* luhn_checksum_is_valid, called on its own
    number_str, luhn_result, original_str, original_result,
    \* extract_imeis_from_text, called on its own
    text, candidates, imeis, scanned,
    \* extract_imei, the request handler
    pc, upload, tmp_path, file_exists, method_used, extracted_text, exc,
    status, response, plumber_calls, ocr_calls, image_calls,
    plumber_outcome, plumber_text, ocr_outcome, ocr_text, image_outcome

luhnVars == <<number_str, luhn_result, original_str, original_result>>
scanVars == <<text, candidates, imeis, scanned>>
handlerVars == <<pc, upload, tmp_path, file_exists, method_used, extracted_text,
                 exc, status, response, plumber_calls, ocr_calls, image_calls,
                 plumber_outcome, plumber_text, ocr_outcome, ocr_text,
                 image_outcome>>
vars == <<luhnVars, scanVars, handlerVars>>

-----------------------------------------------------------------------------
(* Characters *)

AsciiDigits == {"0", "1", "2", "3", "4", "5", "6", "7", "8", "9"}

\* str.isdigit() is True of the decimal digits and of digit-like characters
\* such as the superscripts.
IsDigitChars == AsciiDigits \cup {"SUP2"}

\* The characters int() converts.
IntChars == AsciiDigits

\* The characters the pattern class \d matches.
ReDigitChars == AsciiDigits

\* The characters the pattern class \w matches: alphanumerics and underscore.
ReWordChars == AsciiDigits \cup {"a", "_", "SUP2"}

\* The characters str.strip() removes.
Whitespace == {" ", "NL"}

Chars == ReWordChars \cup Whitespace

\* int(ch) of one decimal digit.
IntOf(ch) ==
    CASE ch = "0" -> 0 [] ch = "1" -> 1 [] ch = "2" -> 2 [] ch = "3" -> 3
      [] ch = "4" -> 4 [] ch = "5" -> 5 [] ch = "6" -> 6 [] ch = "7" -> 7
      [] ch = "8" -> 8 [] ch = "9" -> 9

-----------------------------------------------------------------------------
(* luhn_checksum_is_valid *)

\* str.isdigit(): the string is not empty and every character is a digit.
isdigit(s) == Len(s) > 0 /\ \A i \in 1..Len(s) : s[i] \in IsDigitChars

\* A plausible slip: the doubled digit is not folded back below ten.
DoubledNoFold(digit) == digit * 2

\* doubled = digit * 2; if doubled > 9: doubled -= 9
Doubled(digit) == IF digit * 2 > 9 THEN digit * 2 - 9 ELSE digit * 2

\* What the loop adds for the digit at 0-based index idx.
LuhnTerm(digits, idx) ==
    IF idx % 2 = Len(digits) % 2
    THEN Doubled(IntOf(digits[idx + 1]))
    ELSE IntOf(digits[idx + 1])

RECURSIVE LuhnChecksumFrom(_, _)
\* The value the loop adds to checksum from index idx to the end.
LuhnChecksumFrom(digits, idx) ==
    IF idx >= Len(digits)
    THEN 0
    ELSE LuhnTerm(digits, idx) + LuhnChecksumFrom(digits, idx + 1)

\* "True", "False", or "ValueError" when int(ch) raises in the list
\* comprehension.
luhn_checksum_is_valid(s) ==
    IF ~isdigit(s) THEN "False"
    ELSE IF \E i \in 1..Len(s) : s[i] \notin IntChars THEN "ValueError"
    ELSE IF LuhnChecksumFrom(s, 0) % 10 = 0 THEN "True"
    ELSE "False"

-----------------------------------------------------------------------------
(* IMEI_REGEX and extract_imeis_from_text *)

\* The repetition count of \d{15}.
IMEI_DIGITS == 15

\* Whether the character at 1-based position p exists and is a word character.
IsWordAt(s, p) == p >= 1 /\ p <= Len(s) /\ s[p] \in ReWordChars

\* \b between positions p - 1 and p: exactly one side is a word character.
WordBoundaryAt(s, p) == IsWordAt(s, p - 1) # IsWordAt(s, p)

\* A plausible slip: the pattern lacks its trailing \b.
RegexMatchAtNoTrailingBoundary(s, p) ==
    /\ WordBoundaryAt(s, p)
    /\ p + IMEI_DIGITS - 1 <= Len(s)
    /\ \A k \in 0..(IMEI_DIGITS - 1) : s[p + k] \in ReDigitChars

\* Whether \b\d{15}\b matches starting at position p.
RegexMatchAt(s, p) ==
    /\ WordBoundaryAt(s, p)
    /\ p + IMEI_DIGITS - 1 <= Len(s)
    /\ \A k \in 0..(IMEI_DIGITS - 1) : s[p + k] \in ReDigitChars
    /\ WordBoundaryAt(s, p + IMEI_DIGITS)

RECURSIVE MatchStartsFrom(_, _)
\* The scan of IMEI_REGEX.findall from position p: the leftmost match, then
\* the search goes on after it; no match at p moves the search one
\* character on.  The result is the sequence of the matches' start positions.
MatchStartsFrom(s, p) ==
    IF p > Len(s) THEN <<>>
    ELSE IF RegexMatchAt(s, p)
         THEN <<p>> \o MatchStartsFrom(s, p + IMEI_DIGITS)
         ELSE MatchStartsFrom(s, p + 1)

\* IMEI_REGEX.findall(text): the matched strings, in order.
findall(s) ==
    LET starts == MatchStartsFrom(s, 1)
    IN  [i \in 1..Len(starts) |->
            SubSeq(s, starts[i], starts[i] + IMEI_DIGITS - 1)]

\* A plausible slip: the seen set is never consulted.
AcceptStepNoDedup(acc, candidate) ==
    IF luhn_checksum_is_valid(candidate) = "True"
    THEN [valid |-> Append(acc.valid, candidate),
          seen |-> acc.seen \cup {candidate}]
    ELSE acc

\* One iteration of the loop over candidates; acc is [valid, seen].
AcceptStep(acc, candidate) ==
    IF candidate \in acc.seen THEN acc
    ELSE IF luhn_checksum_is_valid(candidate) = "True"
         THEN [valid |-> Append(acc.valid, candidate),
               seen |-> acc.seen \cup {candidate}]
         ELSE acc

RECURSIVE AcceptLoop(_, _, _)
\* The loop over candidates from 1-based index k on.
AcceptLoop(cands, k, acc) ==
    IF k > Len(cands) THEN acc
    ELSE AcceptLoop(cands, k + 1, AcceptStep(acc, cands[k]))

extract_imeis_from_text(s) ==
    IF s = <<>> THEN <<>>
    ELSE AcceptLoop(findall(s), 1, [valid |-> <<>>, seen |-> {}]).valid

-----------------------------------------------------------------------------
(* Sample texts *)

\* Two numbers with a valid check digit, and one with a wrong check digit.
IMEI_A == <<"4", "9", "0", "1", "5", "4", "2", "0", "3", "2", "3", "7", "5", "1", "8">>
IMEI_B == <<"3", "5", "6", "9", "3", "8", "0", "3", "5", "6", "4", "3", "8", "0", "9">>
IMEI_BAD == <<"4", "9", "0", "1", "5", "4", "2", "0", "3", "2", "3", "7", "5", "1", "9">>

FifteenZeros == [i \in 1..IMEI_DIGITS |-> "0"]

\* Page texts the PDF and OCR services may return.  Every letter is the
\* model's one letter "a".
TEXT_EMPTY == <<>>
TEXT_BLANK == <<" ">>
TEXT_4 == <<"a", "a", "a", "a">>
TEXT_5 == <<"a", "a", "a", "a", "a">>
TEXT_PADDED == <<" ", "a", "a", "NL">>
\* "some text with 490154203237518"
TEXT_WITH_IMEI ==
    <<"a", "a", "a", "a", " ", "a", "a", "a", "a", " ", "a", "a", "a", "a", " ">>
        \o IMEI_A

PageTexts == {TEXT_EMPTY, TEXT_BLANK, TEXT_4, TEXT_5, TEXT_PADDED, TEXT_WITH_IMEI}

-----------------------------------------------------------------------------
(* Values of the variables of the parts a specification does not run *)

LuhnIdle ==
    /\ number_str = <<>>
    /\ luhn_result = "idle"
    /\ original_str = <<>>
    /\ original_result = "none"

ScanIdle ==
    /\ text = <<>>
    /\ candidates = <<>>
    /\ imeis = <<>>
    /\ scanned = FALSE

HandlerIdle ==
    /\ pc = "idle"
    /\ upload = [present |-> FALSE, filename |-> "", content_type |-> "None"]
    /\ tmp_path = "None"
    /\ file_exists = FALSE
    /\ method_used = ""
    /\ extracted_text = <<>>
    /\ exc = [type |-> "none", status_code |-> 0]
    /\ status = 0
    /\ response = [present |-> FALSE]
    /\ plumber_calls = 0
    /\ ocr_calls = 0
    /\ image_calls = 0
    /\ plumber_outcome = "none"
    /\ plumber_text = <<>>
    /\ ocr_outcome = "none"
    /\ ocr_text = <<>>
    /\ image_outcome = "none"

-----------------------------------------------------------------------------
(* Text helpers of the extraction functions *)

RECURSIVE lstrip(_)
lstrip(s) ==
    IF s # <<>> /\ Head(s) \in Whitespace THEN lstrip(Tail(s)) ELSE s

RECURSIVE rstrip(_)
rstrip(s) ==
    IF s # <<>> /\ s[Len(s)] \in Whitespace
    THEN rstrip(SubSeq(s, 1, Len(s) - 1))
    ELSE s

\* str.strip()
strip(s) == rstrip(lstrip(s))

RECURSIVE JoinNewline(_)
\* "\n".join(parts)
JoinNewline(parts) ==
    IF parts = <<>> THEN <<>>
    ELSE IF Len(parts) = 1 THEN parts[1]
    ELSE parts[1] \o <<"NL">> \o JoinNewline(Tail(parts))

\* The parts list: the non-empty texts, in page order.
NonEmptyParts(page_texts) == SelectSeq(page_texts, LAMBDA t : t # <<>>)

-----------------------------------------------------------------------------
(* is_pdf *)

Filenames == {"scan.pdf", "SCAN.PDF", "photo.png", ""}
ContentTypes == {"None", "application/pdf", "Application/X-PDF", "image/png"}

\* str.lower() on the names and content types above.
Lower(str) ==
    CASE str = "SCAN.PDF" -> "scan.pdf"
      [] str = "Application/X-PDF" -> "application/x-pdf"
      [] OTHER -> str

\* str.endswith(".pdf") on the names above.
EndsWithDotPdf(str) == str = "scan.pdf"

is_pdf(filename, content_type) ==
    IF filename # "" /\ EndsWithDotPdf(Lower(filename)) THEN TRUE
    ELSE IF content_type # "None"
            /\ Lower(content_type) \in {"application/pdf", "application/x-pdf"}
         THEN TRUE
         ELSE FALSE

-----------------------------------------------------------------------------
(* The external services and the functions that call them *)

\* The most pages a document has.
MaxPages == 2

\* One page under pdfplumber: page.extract_text with tolerances returns
\* ("ok"), or raises and the call without tolerances returns ("retry_ok") or
\* raises as well ("retry_raise").  None counts as the empty text.
PlumberPageOutcomes ==
    [attempt : {"ok", "retry_ok"}, text : PageTexts]
        \cup {[attempt |-> "retry_raise", text |-> <<>>]}

PlumberDocuments ==
    [opened : {FALSE}, pages : {<<>>}]
        \cup [opened : {TRUE},
              pages : UNION {[1..n -> PlumberPageOutcomes] : n \in 0..MaxPages}]

\* extract_text_with_pdfplumber: raises when the document cannot be opened
\* or a page fails twice, else returns the stripped join of the page texts.
extract_text_with_pdfplumber(doc) ==
    IF ~doc.opened \/ \E i \in 1..Len(doc.pages) : doc.pages[i].attempt = "retry_raise"
    THEN [raised |-> TRUE, text |-> <<>>]
    ELSE [raised |-> FALSE,
          text |-> strip(JoinNewline(NonEmptyParts(
                      [i \in 1..Len(doc.pages) |-> doc.pages[i].text])))]

\* One rasterized page under pytesseract.image_to_string.
OcrPageOutcomes ==
    [ok : {TRUE}, text : PageTexts] \cup {[ok |-> FALSE, text |-> <<>>]}

OcrDocuments ==
    [converted : {FALSE}, pages : {<<>>}]
        \cup [converted : {TRUE},
              pages : UNION {[1..n -> OcrPageOutcomes] : n \in 0..MaxPages}]

\* extract_text_with_pdf_ocr: raises when convert_from_path or an OCR call
\* raises, else returns the stripped join of the non-empty page texts.
extract_text_with_pdf_ocr(doc) ==
    IF ~doc.converted \/ \E i \in 1..Len(doc.pages) : ~doc.pages[i].ok
    THEN [raised |-> TRUE, text |-> <<>>]
    ELSE [raised |-> FALSE,
          text |-> strip(JoinNewline(NonEmptyParts(
                      [i \in 1..Len(doc.pages) |-> doc.pages[i].text])))]

ImageOutcomes == OcrPageOutcomes

\* extract_text_from_image: raises when Image.open or the OCR call raises.
extract_text_from_image(img) ==
    IF ~img.ok THEN [raised |-> TRUE, text |-> <<>>]
    ELSE [raised |-> FALSE, text |-> strip(img.text)]

-----------------------------------------------------------------------------
(* extract_imei: the request handler *)

\* The length below which the text layer is taken as too short.
MIN_TEXT_CHARS == 10

NoException == [type |-> "none", status_code |-> 0]
HTTPException(code) == [type |-> "HTTPException", status_code |-> code]
OtherException == [type |-> "Exception", status_code |-> 0]

NoResponse == [present |-> FALSE]

Uploads ==
    [present : {TRUE}, filename : Filenames, content_type : ContentTypes]
        \cup {[present |-> FALSE, filename |-> "", content_type |-> "None"]}

Init ==
    /\ pc = "start"
    /\ upload \in Uploads
    /\ tmp_path = "None"
    /\ file_exists = FALSE
    /\ method_used = ""
    /\ extracted_text = <<>>
    /\ exc = NoException
    /\ status = 0
    /\ response = NoResponse
    /\ plumber_calls = 0
    /\ ocr_calls = 0
    /\ image_calls = 0
    /\ plumber_outcome = "none"
    /\ plumber_text = <<>>
    /\ ocr_outcome = "none"
    /\ ocr_text = <<>>
    /\ image_outcome = "none"
    /\ LuhnIdle
    /\ ScanIdle

stageVars == <<plumber_calls, ocr_calls, image_calls, plumber_outcome,
               plumber_text, ocr_outcome, ocr_text, image_outcome>>

\* if not file: raise HTTPException(400), before the try statement.
RejectMissingFile ==
    /\ pc = "start"
    /\ ~upload.present
    /\ status' = 400
    /\ pc' = "done"
    /\ UNCHANGED <<upload, tmp_path, file_exists, method_used, extracted_text,
                   exc, response, stageVars, luhnVars, scanVars>>

\* save_upload_to_temp, first half: tempfile.mkstemp creates the file, or
\* raises.
Mkstemp ==
    /\ pc = "start"
    /\ upload.present
    /\ \/ /\ file_exists' = TRUE
          /\ pc' = "write"
          /\ exc' = exc
       \/ /\ file_exists' = file_exists
          /\ pc' = "except"
          /\ exc' = OtherException
    /\ UNCHANGED <<upload, tmp_path, method_used, extracted_text, status,
                   response, stageVars, luhnVars, scanVars>>

\* save_upload_to_temp, second half: the chunks are copied and the path is
\* returned to the handler, or a read or write raises and the handler's
\* tmp_path stays None.
WriteUpload ==
    /\ pc = "write"
    /\ \/ /\ tmp_path' = "tmp"
          /\ pc' = "classify"
          /\ exc' = exc
       \/ /\ tmp_path' = tmp_path
          /\ pc' = "except"
          /\ exc' = OtherException
    /\ UNCHANGED <<upload, file_exists, method_used, extracted_text, status,
                   response, stageVars, luhnVars, scanVars>>

\* method_used = ""; extracted_text = ""; if is_pdf(...): ... else: ...
Classify ==
    /\ pc = "classify"
    /\ method_used' = ""
    /\ extracted_text' = <<>>
    /\ pc' = IF is_pdf(upload.filename, upload.content_type)
             THEN "pdfplumber" ELSE "image"
    /\ UNCHANGED <<upload, tmp_path, file_exists, exc, status, response,
                   stageVars, luhnVars, scanVars>>

\* A plausible slip: the text layer's success leaves the label unset.
PlumberLabelUnset == ""

\* The label set right after extract_text_with_pdfplumber returns.
PlumberLabel == "pdfplumber"

\* First attempt: pdfplumber; a failure is logged and leaves the text empty.
RunPdfplumber ==
    /\ pc = "pdfplumber"
    /\ plumber_calls' = plumber_calls + 1
    /\ \E doc \in PlumberDocuments :
         LET r == extract_text_with_pdfplumber(doc)
         IN  IF r.raised
             THEN /\ extracted_text' = <<>>
                  /\ method_used' = method_used
                  /\ plumber_outcome' = "raised"
                  /\ plumber_text' = <<>>
             ELSE /\ extracted_text' = r.text
                  /\ method_used' = PlumberLabel
                  /\ plumber_outcome' = "returned"
                  /\ plumber_text' = r.text
    /\ pc' = "fallback"
    /\ UNCHANGED <<upload, tmp_path, file_exists, exc, status, response,
                   ocr_calls, image_calls, ocr_outcome, ocr_text,
                   image_outcome, luhnVars, scanVars>>

\* A plausible slip: the threshold is compared with <=.
NeedsOcrFallbackInclusive(txt) == txt = <<>> \/ Len(txt) <= MIN_TEXT_CHARS

\* if not extracted_text or len(extracted_text) < 10
NeedsOcrFallback(txt) == txt = <<>> \/ Len(txt) < MIN_TEXT_CHARS

\* A plausible slip: the OCR text is kept only when no text layer text exists.
AfterOcrKeepTextLayer(txt, label, ocr) ==
    IF ocr # <<>> /\ txt = <<>>
    THEN [text |-> ocr, label |-> "pdf_ocr"]
    ELSE [text |-> txt, label |-> label]

\* if ocr_text: extracted_text = ocr_text; method_used = "pdf_ocr"
AfterOcr(txt, label, ocr) ==
    IF ocr # <<>>
    THEN [text |-> ocr, label |-> "pdf_ocr"]
    ELSE [text |-> txt, label |-> label]

\* Fallback to OCR if the text is empty or short; a failure is logged and
\* changes nothing.
RunPdfOcr ==
    /\ pc = "fallback"
    /\ NeedsOcrFallback(extracted_text)
    /\ ocr_calls' = ocr_calls + 1
    /\ \E doc \in OcrDocuments :
         LET r == extract_text_with_pdf_ocr(doc)
         IN  IF r.raised
             THEN /\ UNCHANGED <<extracted_text, method_used>>
                  /\ ocr_outcome' = "raised"
                  /\ ocr_text' = <<>>
             ELSE /\ extracted_text' = AfterOcr(extracted_text, method_used, r.text).text
                  /\ method_used' = AfterOcr(extracted_text, method_used, r.text).label
                  /\ ocr_outcome' = "returned"
                  /\ ocr_text' = r.text
    /\ pc' = "label"
    /\ UNCHANGED <<upload, tmp_path, file_exists, exc, status, response,
                   plumber_calls, image_calls, plumber_outcome, plumber_text,
                   image_outcome, luhnVars, scanVars>>

\* The text layer gave 10 characters or more: no fallback.
SkipPdfOcr ==
    /\ pc = "fallback"
    /\ ~NeedsOcrFallback(extracted_text)
    /\ pc' = "label"
    /\ UNCHANGED <<upload, tmp_path, file_exists, method_used, extracted_text,
                   exc, status, response, stageVars, luhnVars, scanVars>>

\* A plausible slip: the default label is never assigned.
LabelOrUnknownMissing(label) == label

\* if not method_used: method_used = "unknown_pdf"
LabelOrUnknown(label) == IF label = "" THEN "unknown_pdf" ELSE label

LabelPdf ==
    /\ pc = "label"
    /\ method_used' = LabelOrUnknown(method_used)
    /\ pc' = "respond"
    /\ UNCHANGED <<upload, tmp_path, file_exists, extracted_text, exc, status,
                   response, stageVars, luhnVars, scanVars>>

\* Treat as image: one OCR call; a failure raises HTTPException(400).
RunImageOcr ==
    /\ pc = "image"
    /\ image_calls' = image_calls + 1
    /\ \E img \in ImageOutcomes :
         LET r == extract_text_from_image(img)
         IN  IF r.raised
             THEN /\ UNCHANGED <<extracted_text, method_used>>
                  /\ image_outcome' = "raised"
                  /\ exc' = HTTPException(400)
                  /\ pc' = "except"
             ELSE /\ extracted_text' = r.text
                  /\ method_used' = "image_ocr"
                  /\ image_outcome' = "returned"
                  /\ exc' = exc
                  /\ pc' = "respond"
    /\ UNCHANGED <<upload, tmp_path, file_exists, status, response,
                   plumber_calls, ocr_calls, plumber_outcome, plumber_text,
                   ocr_outcome, ocr_text, luhnVars, scanVars>>

\* num_chars, imeis and the JSONResponse with status 200.
Respond ==
    /\ pc = "respond"
    /\ LET found == extract_imeis_from_text(extracted_text)
       IN  response' =
              [present |-> TRUE,
               filename |-> IF upload.filename # "" THEN upload.filename
                            ELSE "tmp",
               method_used |-> method_used,
               imeis |-> found,
               num_chars_extracted |-> Len(extracted_text),
               num_imeis_found |-> Len(found)]
    /\ status' = 200
    /\ pc' = "finally"
    /\ UNCHANGED <<upload, tmp_path, file_exists, method_used, extracted_text,
                   exc, stageVars, luhnVars, scanVars>>

\* A plausible slip: every exception is turned into the internal error.
ExceptStatusAlways500(e) == 500

\* except HTTPException: raise; except Exception: raise HTTPException(500)
ExceptStatus(e) == IF e.type = "HTTPException" THEN e.status_code ELSE 500

HandleException ==
    /\ pc = "except"
    /\ status' = ExceptStatus(exc)
    /\ pc' = "finally"
    /\ UNCHANGED <<upload, tmp_path, file_exists, method_used, extracted_text,
                   exc, response, stageVars, luhnVars, scanVars>>

\* finally: the temp file is removed when the handler knows its path and it
\* exists; a failing os.remove is logged and leaves the file.
Cleanup ==
    /\ pc = "finally"
    /\ IF tmp_path # "None" /\ file_exists
       THEN file_exists' \in {FALSE, TRUE}
       ELSE file_exists' = file_exists
    /\ pc' = "done"
    /\ UNCHANGED <<upload, tmp_path, method_used, extracted_text, exc, status,
                   response, stageVars, luhnVars, scanVars>>

Next ==
    \/ RejectMissingFile
    \/ Mkstemp
    \/ WriteUpload
    \/ Classify
    \/ RunPdfplumber
    \/ RunPdfOcr
    \/ SkipPdfOcr
    \/ LabelPdf
    \/ RunImageOcr
    \/ Respond
    \/ HandleException
    \/ Cleanup

Spec == Init /\ [][Next]_vars

-----------------------------------------------------------------------------
(* SpecLuhn: luhn_checksum_is_valid applied to bounded inputs *)

\* The longest string enumerated in full.
MaxLen == 3

LuhnAlphabet == AsciiDigits \cup {"a", "SUP2"}

StringsUpTo(n) == UNION {[1..k -> LuhnAlphabet] : k \in 0..n}

LuhnInputs == StringsUpTo(MaxLen) \cup {IMEI_A, IMEI_B, IMEI_BAD, FifteenZeros}

InitLuhn ==
    /\ number_str \in LuhnInputs
    /\ luhn_result = "pending"
    /\ original_str = <<>>
    /\ original_result = "none"
    /\ ScanIdle
    /\ HandlerIdle

\* The call luhn_checksum_is_valid(number_str).
LuhnCall ==
    /\ luhn_result = "pending"
    /\ luhn_result' = luhn_checksum_is_valid(number_str)
    /\ UNCHANGED <<number_str, original_str, original_result>>
    /\ UNCHANGED <<scanVars, handlerVars>>

\* An accepted number has one digit replaced by a different one and is
\* submitted again.
ReplaceDigit ==
    /\ luhn_result = "True"
    /\ original_result = "none"
    /\ \E i \in 1..Len(number_str) :
         \E d \in AsciiDigits \ {number_str[i]} :
            number_str' = [number_str EXCEPT ![i] = d]
    /\ original_str' = number_str
    /\ original_result' = luhn_result
    /\ luhn_result' = "pending"
    /\ UNCHANGED <<scanVars, handlerVars>>

NextLuhn == LuhnCall \/ ReplaceDigit

SpecLuhn == InitLuhn /\ [][NextLuhn]_vars

-----------------------------------------------------------------------------
(* SpecScan: extract_imeis_from_text applied to bounded inputs *)

\* The number of pieces a scanned text is put together from.
MaxTokens == 4

\* The pieces: three 15-digit numbers, one of them also followed by a blank,
\* a single digit, a letter, an underscore and a blank.
Tokens ==
    {IMEI_A, IMEI_A \o <<" ">>, IMEI_B, IMEI_BAD,
     <<"1">>, <<"a">>, <<"_">>, <<" ">>}

RECURSIVE Concat(_)
Concat(pieces) ==
    IF pieces = <<>> THEN <<>> ELSE Head(pieces) \o Concat(Tail(pieces))

ScanTexts ==
    {Concat(pieces) : pieces \in UNION {[1..k -> Tokens] : k \in 0..MaxTokens}}

InitScan ==
    /\ text \in ScanTexts
    /\ candidates = <<>>
    /\ imeis = <<>>
    /\ scanned = FALSE
    /\ LuhnIdle
    /\ HandlerIdle

\* The call extract_imeis_from_text(text); candidates records what
\* IMEI_REGEX.findall returned in it.
Scan ==
    /\ ~scanned
    /\ scanned' = TRUE
    /\ candidates' = findall(text)
    /\ imeis' = extract_imeis_from_text(text)
    /\ UNCHANGED text
    /\ UNCHANGED <<luhnVars, handlerVars>>

NextScan == Scan

SpecScan == InitScan /\ [][NextScan]_vars

-----------------------------------------------------------------------------
(* Reference notions the properties are stated with *)

\* The Luhn weight of the digit at 1-based position i, counted from the
\* right end: the rightmost digit is not doubled, every second one is.
RefLuhnWeight(s, i) ==
    LET d == IntOf(s[i])
    IN  IF (Len(s) - i) % 2 = 1
        THEN (IF 2 * d > 9 THEN 2 * d - 9 ELSE 2 * d)
        ELSE d

RECURSIVE RefLuhnSum(_, _)
RefLuhnSum(s, i) ==
    IF i = 0 THEN 0 ELSE RefLuhnWeight(s, i) + RefLuhnSum(s, i - 1)

RefLuhnValid(s) == RefLuhnSum(s, Len(s)) % 10 = 0

IsDecimalString(s) == Len(s) > 0 /\ \A i \in 1..Len(s) : s[i] \in AsciiDigits

AlnumOrUnderscore == AsciiDigits \cup {"a", "SUP2", "_"}

\* A run of 15 decimal digits starts at p, with no alphanumeric or
\* underscore character right before or right after it.
RefCandidateAt(s, p) ==
    /\ p + 14 <= Len(s)
    /\ \A k \in 0..14 : s[p + k] \in AsciiDigits
    /\ p = 1 \/ s[p - 1] \notin AlnumOrUnderscore
    /\ p + 15 > Len(s) \/ s[p + 15] \notin AlnumOrUnderscore

RefCandidatePositions(s) == {p \in 1..Len(s) : RefCandidateAt(s, p)}

RefRunAt(s, p) == SubSeq(s, p, p + 14)

\* The first of the positions ps at which c stands in s.
RefFirstPosition(s, ps, c) ==
    CHOOSE p \in ps :
        /\ RefRunAt(s, p) = c
        /\ \A q \in ps : RefRunAt(s, q) = c => p <= q

SeqRange(q) == {q[i] : i \in 1..Len(q)}

LuhnDone == luhn_result \in {"True", "False", "ValueError"}

-----------------------------------------------------------------------------
(* Properties of luhn_checksum_is_valid, under SpecLuhn *)

\* C8: on every non-empty string of decimal digits luhn_checksum_is_valid
\* agrees with the reference Luhn check that doubles every second digit
\* counted from the right; the empty string and every string holding a
\* character that is not a decimal digit give False.
C8_LuhnMatchesReference ==
    LuhnDone =>
        /\ IsDecimalString(number_str) =>
              luhn_result = (IF RefLuhnValid(number_str) THEN "True" ELSE "False")
        /\ number_str = <<>> => luhn_result = "False"
        /\ (\E i \in 1..Len(number_str) : number_str[i] \notin AsciiDigits) =>
              luhn_result = "False"

\* The part of C8 that the code satisfies: agreement with the reference on
\* strings of decimal digits, and False for the empty string and for strings
\* holding a character str.isdigit() rejects.
LuhnMatchesReferenceOnIsdigitRejects ==
    LuhnDone =>
        /\ IsDecimalString(number_str) =>
              luhn_result = (IF RefLuhnValid(number_str) THEN "True" ELSE "False")
        /\ number_str = <<>> => luhn_result = "False"
        /\ (\E i \in 1..Len(number_str) : number_str[i] \notin IsDigitChars) =>
              luhn_result = "False"

\* C10: a number that was accepted and then had one digit replaced by a
\* different digit is rejected; every all-zero digit string is accepted.
C10_SingleDigitChangeRejected ==
    LuhnDone =>
        /\ original_result = "True" => luhn_result = "False"
        /\ (number_str # <<>> /\ \A i \in 1..Len(number_str) : number_str[i] = "0")
              => luhn_result = "True"

\* A known valid IMEI had its second digit (a doubled position) replaced and
\* the result was rejected.
C10_Witness ==
    /\ original_str = IMEI_A
    /\ original_result = "True"
    /\ number_str[2] # IMEI_A[2]
    /\ luhn_result = "False"

-----------------------------------------------------------------------------
(* Properties of the scanner, under SpecScan *)

\* C6: extract_imeis_from_text returns exactly the Luhn-valid candidates of
\* the text, each once, ordered by the position of their first occurrence.
C6_ValidCandidatesOnceInOrder ==
    scanned =>
        LET ps == RefCandidatePositions(text)
            first == [i \in 1..Len(imeis) |-> RefFirstPosition(text, ps, imeis[i])]
        IN  /\ \A i, j \in 1..Len(imeis) : i # j => imeis[i] # imeis[j]
            /\ SeqRange(imeis) =
                  {RefRunAt(text, p) : p \in
                      {q \in ps : RefLuhnValid(RefRunAt(text, q))}}
            /\ \A i, j \in 1..Len(imeis) : i < j => first[i] < first[j]

\* A valid number, another valid number, then the first one again.
C6_Witness ==
    /\ scanned
    /\ text = IMEI_A \o <<" ">> \o IMEI_B \o <<" ">> \o IMEI_A
    /\ imeis = <<IMEI_A, IMEI_B>>

\* C7: a run of 15 decimal digits is taken as a candidate exactly when no
\* alphanumeric or underscore character is right before or right after it.
C7_CandidateIffWordBounded ==
    scanned =>
        LET ps == RefCandidatePositions(text)
            starts == MatchStartsFrom(text, 1)
        IN  /\ SeqRange(starts) = ps
            /\ Len(candidates) = Cardinality(ps)
            /\ \A i \in 1..Len(candidates) :
                  candidates[i] = RefRunAt(text, starts[i])

\* The free-standing run is taken, the 17-digit run after it yields nothing.
C7_Witness ==
    /\ scanned
    /\ text = IMEI_A \o <<" ">> \o IMEI_B \o <<"1", "1">>
    /\ candidates = <<IMEI_A>>

-----------------------------------------------------------------------------
(* Properties of the request handler, under Spec *)

IsPdfUpload == upload.present /\ is_pdf(upload.filename, upload.content_type)

TextLayerFailedOrShort ==
    \/ plumber_outcome = "raised"
    \/ plumber_outcome = "returned" /\ Len(plumber_text) < 10

\* C1: for a PDF whose text layer failed or gave fewer than 10 characters
\* and whose OCR fallback returned a non-empty text T, the response has
\* method_used "pdf_ocr", num_chars_extracted = len(T) and the identifiers
\* the scanner finds in T; a short text layer text is discarded.
C1_OcrTextReplacesTextLayer ==
    (/\ response.present
     /\ IsPdfUpload
     /\ TextLayerFailedOrShort
     /\ ocr_outcome = "returned"
     /\ ocr_text # <<>>)
    =>
        /\ response.method_used = "pdf_ocr"
        /\ extracted_text = ocr_text
        /\ response.num_chars_extracted = Len(ocr_text)
        /\ response.imeis = extract_imeis_from_text(ocr_text)
        /\ response.num_imeis_found = Len(response.imeis)
        /\ ocr_text = TEXT_WITH_IMEI =>
              /\ response.num_chars_extracted = 30
              /\ response.imeis = <<IMEI_A>>

\* The text layer gave 4 characters, the OCR fallback the text with the
\* IMEI, and the response reports the OCR text.
C1_Witness ==
    /\ response.present
    /\ IsPdfUpload
    /\ plumber_outcome = "returned"
    /\ plumber_text = TEXT_4
    /\ ocr_text = TEXT_WITH_IMEI
    /\ response.method_used = "pdf_ocr"
    /\ response.imeis = <<IMEI_A>>

ShortTextLayerThenOcrFailure ==
    /\ response.present
    /\ IsPdfUpload
    /\ plumber_outcome = "returned"
    /\ plumber_text # <<>>
    /\ Len(plumber_text) < 10
    /\ ocr_outcome = "raised"

\* C2, as claimed: for a PDF whose text layer returned a non-empty text of
\* fewer than 10 characters and whose OCR fallback failed, the response has
\* method_used "unknown_pdf" while the raw text is still the text layer's.
C2_ShortTextUnlabelled ==
    ShortTextLayerThenOcrFailure =>
        /\ response.method_used = "unknown_pdf"
        /\ extracted_text = plumber_text
        /\ response.num_chars_extracted = Len(plumber_text)

\* C2, amended: in that case the response has method_used "pdfplumber" and
\* the raw text is still the text layer's short text.
C2_ShortTextKeepsPdfplumberLabel ==
    ShortTextLayerThenOcrFailure =>
        /\ response.method_used = "pdfplumber"
        /\ extracted_text = plumber_text
        /\ response.num_chars_extracted = Len(plumber_text)

\* The text layer gave 4 characters, the OCR fallback raised, and the
\* request has ended.
C2_Witness ==
    /\ ShortTextLayerThenOcrFailure
    /\ plumber_text = TEXT_4
    /\ response.num_chars_extracted = 4
    /\ pc = "done"

\* C3: for a PDF no failure of the text layer stage or of the OCR fallback
\* becomes an error: once the stages have run the request ends with a
\* response, and when both stages raised that response is "unknown_pdf"
\* with 0 characters and no identifiers.
C3_PdfStageFailuresSwallowed ==
    /\ (IsPdfUpload /\ plumber_calls >= 1) =>
          /\ exc.type = "none"
          /\ pc # "except"
          /\ pc = "done" => (status = 200 /\ response.present)
    /\ (response.present /\ plumber_outcome = "raised" /\ ocr_outcome = "raised") =>
          /\ response.method_used = "unknown_pdf"
          /\ response.num_chars_extracted = 0
          /\ response.imeis = <<>>
          /\ response.num_imeis_found = 0

\* Both stages raised and the request ended with a 200 response.
C3_Witness ==
    /\ pc = "done"
    /\ IsPdfUpload
    /\ plumber_outcome = "raised"
    /\ ocr_outcome = "raised"
    /\ status = 200
    /\ response.method_used = "unknown_pdf"

\* C4: for an image a failing OCR call ends the request with status 400 and
\* no response, never with status 500; no other stage is attempted; a
\* successful OCR call gives method_used "image_ocr".
C4_ImageFailureIsBadInput ==
    /\ image_outcome # "none" =>
          /\ ~IsPdfUpload
          /\ image_calls = 1
          /\ plumber_calls = 0
          /\ ocr_calls = 0
    /\ image_outcome = "raised" =>
          /\ ~response.present
          /\ status \in {0, 400}
          /\ pc \in {"finally", "done"} => status = 400
    /\ (image_outcome = "returned" /\ pc \in {"finally", "done"}) =>
          /\ status = 200
          /\ response.present
          /\ response.method_used = "image_ocr"

\* The image OCR call raised and the request ended with status 400.
C4_Witness ==
    /\ pc = "done"
    /\ image_outcome = "raised"
    /\ status = 400
    /\ ~response.present

\* C5: when an invocation ends, on whatever path, its temporary file does
\* not exist any more.
C5_TempFileGoneAtEnd == pc = "done" => ~file_exists

\* C9: for a PDF the text layer stage runs once and first; the OCR fallback
\* runs at most once, after it, exactly when the text layer stage failed or
\* gave fewer than 10 characters; with 10 characters or more the response
\* is labelled "pdfplumber" and carries the text layer text.
C9_StagesOnceInOrder ==
    /\ plumber_calls <= 1
    /\ ocr_calls <= 1
    /\ ocr_calls = 1 => (plumber_calls = 1 /\ plumber_outcome # "none")
    /\ plumber_calls = 1 => (IsPdfUpload /\ image_calls = 0)
    /\ (IsPdfUpload /\ tmp_path # "None"
            /\ pc \in {"fallback", "label", "respond", "finally", "done"}) =>
          plumber_calls = 1
    /\ pc \in {"label", "respond", "finally", "done"} /\ plumber_calls = 1 =>
          /\ ocr_calls = 1 <=> TextLayerFailedOrShort
          /\ ocr_outcome # "none" <=> TextLayerFailedOrShort
    /\ (response.present /\ plumber_outcome = "returned"
            /\ Len(plumber_text) >= 10) =>
          /\ ocr_calls = 0
          /\ response.method_used = "pdfplumber"
          /\ extracted_text = plumber_text
          /\ response.num_chars_extracted = Len(plumber_text)

\* The text layer gave exactly 10 characters and the OCR stage did not run.
C9_Witness ==
    /\ pc = "done"
    /\ plumber_outcome = "returned"
    /\ Len(plumber_text) = 10
    /\ ocr_calls = 0
    /\ response.method_used = "pdfplumber"

====
